---- MODULE Spec2Model ----
(***************************************************************************)
(* Model of categorize.py: the node-linked ordered tree (LinkedTree), its  *)
(* positional API, the traversals, and the construction loop of            *)
(* ProductCategorizer.fill_tree / print_tree.                              *)
(*                                                                         *)
(* Strings are sequences of one-character strings.  Nodes live in a heap   *)
(* (a sequence of node records); a node reference is its index, 0 is None. *)
(* An optional list (_children) is <<>> for None and <<list>> for a list.  *)
(***************************************************************************)
EXTENDS Integers, Sequences, FiniteSets, TLC

\* ---------------------------------------------------------------- bounds
MaxNodes == 3          \* nodes allocated by direct API calls
MaxLabels == 3         \* labels per generated input line

\* ------------------------------------------------------------ value space
Trees == {"T1", "T2"}

Elements == {<<"a">>, <<"b">>}

RawLabels == {<<"a">>, <<"b">>, <<" ", "c">>}

Whitespace == {" ", "\n", "\t"}

ErrOk == "ok"

ErrType == "TypeError: p must be proper Position type"

ErrContainer == "ValueError: p does not belong to this container"

ErrDeprecated == "ValueError: p is no longer valid"

ErrRootExists == "ValueError: Root exists"

ErrNoPosition == "ValueError: No such position exists"

\* Python None and False as position-shaped values (kept record-shaped so
\* that every value a position variable can hold is comparable).
NonePos == [kind |-> "None", container |-> "-", node |-> 0]

FalseVal == [kind |-> "False", container |-> "-", node |-> 0]

NoneList == <<>>

\* ------------------------------------------------------------- strings
RECURSIVE lstrip(_)
lstrip(s) ==
    IF s # <<>> /\ Head(s) \in Whitespace THEN lstrip(Tail(s)) ELSE s

RECURSIVE rstrip(_)
rstrip(s) ==
    IF s # <<>> /\ s[Len(s)] \in Whitespace
    THEN rstrip(SubSeq(s, 1, Len(s) - 1))
    ELSE s

\* str.strip()
strip(s) == rstrip(lstrip(s))

\* str.split(','): always at least one piece
RECURSIVE split(_)
split(s) ==
    IF \E i \in 1..Len(s) : s[i] = ","
    THEN LET i == CHOOSE k \in 1..Len(s) :
                      s[k] = "," /\ \A j \in 1..(k - 1) : s[j] # ","
         IN  <<SubSeq(s, 1, i - 1)>> \o split(SubSeq(s, i + 1, Len(s)))
    ELSE <<s>>

\* input generator: a text line from raw labels, newline-terminated
RECURSIVE JoinComma(_)
JoinComma(ls) ==
    IF Len(ls) = 1 THEN ls[1] ELSE ls[1] \o <<",">> \o JoinComma(Tail(ls))

Lines ==
    {JoinComma(ls) \o <<"\n">> :
        ls \in UNION {[1..k -> RawLabels] : k \in 1..MaxLabels}}

\* ---------------------------------------------------------------- state
VARIABLES heap, _root, _size, call, pc, cursor, labels, files, fillErr, step

vars == <<heap, _root, _size, call, pc, cursor, labels, files, fillErr, step>>

\* LinkedTree._Node(element, parent=None, children=None)
Node(element, par, children) ==
    [_element |-> element, _parent |-> par, _children |-> children]

\* LinkedTree.Position(container, node) via _make_position
_make_position(t, n) ==
    IF n # 0 THEN [kind |-> "Position", container |-> t, node |-> n]
    ELSE NonePos

\* Position.__eq__: same type and same node (the container is not compared)
PositionEq(p, q) ==
    IF p.kind = "Position" /\ q.kind = "Position" THEN p.node = q.node
    ELSE p.kind = q.kind

\* nodes reachable from node n through children lists
RECURSIVE Subtree(_, _)
Subtree(h, n) ==
    {n} \cup
    (IF h[n]._children = NoneList THEN {}
     ELSE UNION {Subtree(h, h[n]._children[1][i]) :
                    i \in 1..Len(h[n]._children[1])})

NodesOf(h, t) == IF _root[t] = 0 THEN {} ELSE Subtree(h, _root[t])

\* ------------------------------------------------------------ LinkedTree
_validate_nocontainer(h, t, p) ==
    IF p.kind # "Position" THEN [err |-> ErrType, node |-> 0]
    ELSE IF h[p.node]._parent = p.node THEN [err |-> ErrDeprecated, node |-> 0]
    ELSE [err |-> ErrOk, node |-> p.node]

_validate(h, t, p) ==
    IF p.kind # "Position" THEN [err |-> ErrType, node |-> 0]
    ELSE IF p.container # t THEN [err |-> ErrContainer, node |-> 0]
    ELSE IF h[p.node]._parent = p.node THEN [err |-> ErrDeprecated, node |-> 0]
    ELSE [err |-> ErrOk, node |-> p.node]

len(t) == _size[t]

is_empty(t) == len(t) = 0

root(t) == _make_position(t, _root[t])

is_root(t, p) == PositionEq(root(t), p)

parent(h, t, p) ==
    LET v == _validate(h, t, p)
    IN  IF v.err # ErrOk THEN [err |-> v.err, val |-> NonePos]
        ELSE [err |-> ErrOk, val |-> _make_position(t, h[v.node]._parent)]

num_children(h, t, p) ==
    LET v == _validate(h, t, p)
    IN  IF v.err # ErrOk THEN [err |-> v.err, val |-> 0]
        ELSE IF h[v.node]._children = NoneList THEN [err |-> ErrOk, val |-> 0]
        ELSE [err |-> ErrOk, val |-> Len(h[v.node]._children[1])]

children_none_is_leaf(h, t, p) ==
    LET v == _validate(h, t, p)
    IN  IF p.kind = "None" THEN [err |-> ErrOk, val |-> <<>>]
        ELSE IF v.err # ErrOk THEN [err |-> v.err, val |-> <<>>]
        ELSE IF h[v.node]._children # NoneList
        THEN [err |-> ErrOk,
              val |-> [i \in 1..Len(h[v.node]._children[1]) |->
                          _make_position(t, h[v.node]._children[1][i])]]
        ELSE [err |-> ErrOk, val |-> <<>>]

\* the generator run to exhaustion: the positions it yields, or its error
children(h, t, p) ==
    LET v == _validate(h, t, p)
    IN  IF v.err # ErrOk THEN [err |-> v.err, val |-> <<>>]
        ELSE IF h[v.node]._children # NoneList
        THEN [err |-> ErrOk,
              val |-> [i \in 1..Len(h[v.node]._children[1]) |->
                          _make_position(t, h[v.node]._children[1][i])]]
        ELSE [err |-> ErrOk, val |-> <<>>]

RECURSIVE ScanChildren(_, _, _, _)
ScanChildren(h, t, cs, value) ==
    IF cs = <<>> THEN [err |-> ErrOk, val |-> FalseVal]
    ELSE LET v == _validate(h, t, Head(cs))
         IN  IF v.err # ErrOk THEN [err |-> v.err, val |-> NonePos]
             ELSE IF h[v.node]._element = value
             THEN [err |-> ErrOk, val |-> Head(cs)]
             ELSE ScanChildren(h, t, Tail(cs), value)

find_child_never(h, t, p, value) ==
    LET c == children(h, t, p)
    IN  IF c.err # ErrOk THEN [err |-> c.err, val |-> NonePos]
        ELSE [err |-> ErrOk, val |-> FalseVal]

find_child_by_value(h, t, p, value) ==
    LET c == children(h, t, p)
    IN  IF c.err # ErrOk THEN [err |-> c.err, val |-> NonePos]
        ELSE ScanChildren(h, t, c.val, value)

\* outcome of a mutating call: the error raised (or ok), the store after the
\* call and the value returned
Outcome(err, h, r, s, ret) ==
    [err |-> err, heap |-> h, _root |-> r, _size |-> s, ret |-> ret]

_add_root_overwrite(t, e) ==
    Outcome(ErrOk, Append(heap, Node(e, 0, NoneList)),
            [_root EXCEPT ![t] = Len(heap) + 1],
            [_size EXCEPT ![t] = 1],
            _make_position(t, Len(heap) + 1))

_add_root(t, e) ==
    IF _root[t] # 0 THEN Outcome(ErrRootExists, heap, _root, _size, NonePos)
    ELSE Outcome(ErrOk, Append(heap, Node(e, 0, NoneList)),
                 [_root EXCEPT ![t] = Len(heap) + 1],
                 [_size EXCEPT ![t] = 1],
                 _make_position(t, Len(heap) + 1))

_add_nonroot_node_always(t, p, e) ==
    LET v == _validate(heap, t, p)
    IN  IF v.err # ErrOk THEN Outcome(v.err, heap, _root, _size, NonePos)
        ELSE
        LET h1 == IF heap[v.node]._children = NoneList
                  THEN [heap EXCEPT ![v.node]._children = <<<<>>>>]
                  ELSE heap
            f  == find_child_by_value(h1, t, p, e)
            new == Len(h1) + 1
        IN  IF f.err # ErrOk THEN Outcome(f.err, h1, _root, _size, NonePos)
            ELSE Outcome(ErrOk,
                    Append([h1 EXCEPT ![v.node]._children =
                               <<Append(h1[v.node]._children[1], new)>>],
                           Node(e, v.node, NoneList)),
                    _root, [_size EXCEPT ![t] = len(t) + 1],
                    _make_position(t, new))

_add_nonroot_node_nosize(t, p, e) ==
    LET v == _validate(heap, t, p)
    IN  IF v.err # ErrOk THEN Outcome(v.err, heap, _root, _size, NonePos)
        ELSE
        LET h1 == IF heap[v.node]._children = NoneList
                  THEN [heap EXCEPT ![v.node]._children = <<<<>>>>]
                  ELSE heap
            f  == find_child_by_value(h1, t, p, e)
            new == Len(h1) + 1
        IN  IF f.err # ErrOk THEN Outcome(f.err, h1, _root, _size, NonePos)
            ELSE IF f.val.kind = "Position"
            THEN Outcome(ErrOk, h1, _root, _size, NonePos)
            ELSE Outcome(ErrOk,
                    Append([h1 EXCEPT ![v.node]._children =
                               <<Append(h1[v.node]._children[1], new)>>],
                           Node(e, v.node, NoneList)),
                    _root, _size, _make_position(t, new))

_add_nonroot_node_noparent(t, p, e) ==
    LET v == _validate(heap, t, p)
    IN  IF v.err # ErrOk THEN Outcome(v.err, heap, _root, _size, NonePos)
        ELSE
        LET h1 == IF heap[v.node]._children = NoneList
                  THEN [heap EXCEPT ![v.node]._children = <<<<>>>>]
                  ELSE heap
            f  == find_child_by_value(h1, t, p, e)
            new == Len(h1) + 1
        IN  IF f.err # ErrOk THEN Outcome(f.err, h1, _root, _size, NonePos)
            ELSE IF f.val.kind = "Position"
            THEN Outcome(ErrOk, h1, _root, _size, NonePos)
            ELSE Outcome(ErrOk,
                    Append([h1 EXCEPT ![v.node]._children =
                               <<Append(h1[v.node]._children[1], new)>>],
                           Node(e, 0, NoneList)),
                    _root, [_size EXCEPT ![t] = len(t) + 1],
                    _make_position(t, new))

_add_nonroot_node_prepend(t, p, e) ==
    LET v == _validate(heap, t, p)
    IN  IF v.err # ErrOk THEN Outcome(v.err, heap, _root, _size, NonePos)
        ELSE
        LET h1 == IF heap[v.node]._children = NoneList
                  THEN [heap EXCEPT ![v.node]._children = <<<<>>>>]
                  ELSE heap
            f  == find_child_by_value(h1, t, p, e)
            new == Len(h1) + 1
        IN  IF f.err # ErrOk THEN Outcome(f.err, h1, _root, _size, NonePos)
            ELSE IF f.val.kind = "Position"
            THEN Outcome(ErrOk, h1, _root, _size, NonePos)
            ELSE Outcome(ErrOk,
                    Append([h1 EXCEPT ![v.node]._children =
                               <<<<new>> \o h1[v.node]._children[1]>>],
                           Node(e, v.node, NoneList)),
                    _root, [_size EXCEPT ![t] = len(t) + 1],
                    _make_position(t, new))

_add_nonroot_node(t, p, e) ==
    LET v == _validate(heap, t, p)
    IN  IF v.err # ErrOk THEN Outcome(v.err, heap, _root, _size, NonePos)
        ELSE IF v.node = 0
        THEN Outcome(ErrNoPosition, heap, _root, _size, NonePos)
        ELSE
        LET h1 == IF heap[v.node]._children = NoneList
                  THEN [heap EXCEPT ![v.node]._children = <<<<>>>>]
                  ELSE heap
            f  == find_child_by_value(h1, t, p, e)
            new == Len(h1) + 1
        IN  IF f.err # ErrOk THEN Outcome(f.err, h1, _root, _size, NonePos)
            ELSE IF f.val.kind = "Position"
            THEN Outcome(ErrOk, h1, _root, _size, NonePos)
            ELSE Outcome(ErrOk,
                    Append([h1 EXCEPT ![v.node]._children =
                               <<Append(h1[v.node]._children[1], new)>>],
                           Node(e, v.node, NoneList)),
                    _root, [_size EXCEPT ![t] = len(t) + 1],
                    _make_position(t, new))

\* add_node(e, p=None): dispatches and returns nothing
add_node(t, e, p) ==
    LET o == IF p.kind = "None" THEN _add_root(t, e)
             ELSE _add_nonroot_node(t, p, e)
    IN  [o EXCEPT !.ret = NonePos]

depth_flat(h, t, p) ==
    IF is_root(t, p) THEN [err |-> ErrOk, val |-> 0]
    ELSE LET q == parent(h, t, p)
         IN  IF q.err # ErrOk THEN [err |-> q.err, val |-> 0]
             ELSE [err |-> ErrOk, val |-> 1]

\* Tree.depth: levels between p and the root, following parent links
RECURSIVE depth(_, _, _)
depth(h, t, p) ==
    IF is_root(t, p) THEN [err |-> ErrOk, val |-> 0]
    ELSE LET q == parent(h, t, p)
         IN  IF q.err # ErrOk THEN [err |-> q.err, val |-> 0]
             ELSE LET d == depth(h, t, q.val)
                  IN  IF d.err # ErrOk THEN d
                      ELSE [err |-> ErrOk, val |-> 1 + d.val]

\* n * '\t'
RECURSIVE Tabs(_)
Tabs(n) == IF n <= 0 THEN <<>> ELSE <<"\t">> \o Tabs(n - 1)

\* depth(p)*'\t' + _validate(p)._element + '\n'
NodeLine(h, t, p) ==
    LET d == depth(h, t, p)
    IN  IF d.err # ErrOk THEN [err |-> d.err, val |-> <<>>]
        ELSE LET v == _validate(h, t, p)
             IN  IF v.err # ErrOk THEN [err |-> v.err, val |-> <<>>]
                 ELSE [err |-> ErrOk,
                       val |-> Tabs(d.val) \o h[v.node]._element \o <<"\n">>]

\* The generators run to exhaustion: the lines yielded before the end or
\* before the error that stops them.
RECURSIVE _traverse_preorder(_, _, _), PreorderEach(_, _, _)
_traverse_preorder(h, t, p) ==
    LET l == NodeLine(h, t, p)
    IN  IF l.err # ErrOk THEN [err |-> l.err, val |-> <<>>]
        ELSE LET c == children(h, t, p)
             IN  IF c.err # ErrOk THEN [err |-> c.err, val |-> <<l.val>>]
                 ELSE LET r == PreorderEach(h, t, c.val)
                      IN  [err |-> r.err, val |-> <<l.val>> \o r.val]

PreorderEach(h, t, cs) ==
    IF cs = <<>> THEN [err |-> ErrOk, val |-> <<>>]
    ELSE LET f == _traverse_preorder(h, t, Head(cs))
         IN  IF f.err # ErrOk THEN f
             ELSE LET r == PreorderEach(h, t, Tail(cs))
                  IN  [err |-> r.err, val |-> f.val \o r.val]

RECURSIVE _traverse_postorder(_, _, _), PostorderEach(_, _, _)
_traverse_postorder(h, t, p) ==
    LET c == children(h, t, p)
    IN  IF c.err # ErrOk THEN [err |-> c.err, val |-> <<>>]
        ELSE LET r == PostorderEach(h, t, c.val)
             IN  IF r.err # ErrOk THEN r
                 ELSE LET l == NodeLine(h, t, p)
                      IN  IF l.err # ErrOk THEN [err |-> l.err, val |-> r.val]
                          ELSE [err |-> ErrOk, val |-> r.val \o <<l.val>>]

PostorderEach(h, t, cs) ==
    IF cs = <<>> THEN [err |-> ErrOk, val |-> <<>>]
    ELSE LET f == _traverse_postorder(h, t, Head(cs))
         IN  IF f.err # ErrOk THEN f
             ELSE LET r == PostorderEach(h, t, Tail(cs))
                  IN  [err |-> r.err, val |-> f.val \o r.val]

all_nodes_always_pre(h, t, mode) ==
    _traverse_preorder(h, t, root(t))

all_nodes(h, t, mode) ==
    IF mode = "pre" THEN _traverse_preorder(h, t, root(t))
    ELSE _traverse_postorder(h, t, root(t))

RECURSIVE get_path_to_root_stop_early(_, _, _)
get_path_to_root_stop_early(h, t, p) ==
    IF is_root(t, p) THEN [err |-> ErrOk, val |-> <<p>>]
    ELSE LET q == parent(h, t, p)
         IN  IF q.err # ErrOk THEN [err |-> q.err, val |-> <<p>>]
             ELSE IF is_root(t, q.val) THEN [err |-> ErrOk, val |-> <<p>>]
             ELSE LET r == get_path_to_root_stop_early(h, t, q.val)
                  IN  [err |-> r.err, val |-> <<p>> \o r.val]

\* get_path_to_root: p, then the parents up to the root; the list built so
\* far is lost when parent() raises
RECURSIVE get_path_to_root(_, _, _)
get_path_to_root(h, t, p) ==
    IF is_root(t, p) THEN [err |-> ErrOk, val |-> <<p>>]
    ELSE LET q == parent(h, t, p)
         IN  IF q.err # ErrOk THEN [err |-> q.err, val |-> <<>>]
             ELSE LET r == get_path_to_root(h, t, q.val)
                  IN  IF r.err # ErrOk THEN r
                      ELSE [err |-> ErrOk, val |-> <<p>> \o r.val]

\* --------------------------------------------------- ProductCategorizer
\* the tree instance fill_tree creates and stores in self._tree
TheTree == "T1"

\* body of the inner loop of fill_tree for one piece `node` of a split line,
\* with the local variable `parent` (the cursor) equal to cur
FillOutcome(err, h, s, cur, kind, found) ==
    [err |-> err, heap |-> h, _size |-> s, cursor |-> cur,
     kind |-> kind, found |-> found]

fill_label_advance(cur, node) ==
    LET label == strip(node)
        rv == _validate(heap, TheTree, root(TheTree))
    IN  IF rv.err # ErrOk
        THEN FillOutcome(rv.err, heap, _size, cur, "error", NonePos)
        ELSE IF heap[rv.node]._element = label
        THEN FillOutcome(ErrOk, heap, _size, root(TheTree), "root", NonePos)
        ELSE
        LET f == find_child_by_value(heap, TheTree, cur, label)
        IN  IF f.err # ErrOk
            THEN FillOutcome(f.err, heap, _size, cur, "error", NonePos)
            ELSE IF f.val.kind = "False"
            THEN LET o == add_node(TheTree, label, cur)
                 IN  FillOutcome(o.err, o.heap, o._size,
                                 IF o.err = ErrOk
                                 THEN _make_position(TheTree, Len(o.heap))
                                 ELSE cur,
                                 IF o.err = ErrOk THEN "add" ELSE "error",
                                 f.val)
            ELSE LET g == find_child_by_value(heap, TheTree,
                                              root(TheTree), label)
                 IN  IF g.err # ErrOk
                     THEN FillOutcome(g.err, heap, _size, cur, "error", f.val)
                     ELSE FillOutcome(ErrOk, heap, _size, g.val, "found",
                                      f.val)

fill_label_descend(cur, node) ==
    LET label == strip(node)
        rv == _validate(heap, TheTree, root(TheTree))
    IN  IF rv.err # ErrOk
        THEN FillOutcome(rv.err, heap, _size, cur, "error", NonePos)
        ELSE IF heap[rv.node]._element = label
        THEN FillOutcome(ErrOk, heap, _size, root(TheTree), "root", NonePos)
        ELSE
        LET f == find_child_by_value(heap, TheTree, cur, label)
        IN  IF f.err # ErrOk
            THEN FillOutcome(f.err, heap, _size, cur, "error", NonePos)
            ELSE IF f.val.kind = "False"
            THEN LET o == add_node(TheTree, label, cur)
                 IN  FillOutcome(o.err, o.heap, o._size, cur,
                                 IF o.err = ErrOk THEN "add" ELSE "error",
                                 f.val)
            ELSE LET g == find_child_by_value(heap, TheTree,
                                              cur, label)
                 IN  IF g.err # ErrOk
                     THEN FillOutcome(g.err, heap, _size, cur, "error", f.val)
                     ELSE FillOutcome(ErrOk, heap, _size, g.val, "found",
                                      f.val)

fill_label_swallow(cur, node) ==
    LET label == strip(node)
        rv == _validate(heap, TheTree, root(TheTree))
    IN  IF rv.err # ErrOk
        THEN FillOutcome(rv.err, heap, _size, cur, "error", NonePos)
        ELSE IF heap[rv.node]._element = label
        THEN FillOutcome(ErrOk, heap, _size, root(TheTree), "root", NonePos)
        ELSE
        LET f == find_child_by_value(heap, TheTree, cur, label)
        IN  IF f.err # ErrOk
            THEN FillOutcome(ErrOk, heap, _size, cur, "skip", NonePos)
            ELSE IF f.val.kind = "False"
            THEN LET o == add_node(TheTree, label, cur)
                 IN  FillOutcome(o.err, o.heap, o._size, cur,
                                 IF o.err = ErrOk THEN "add" ELSE "error",
                                 f.val)
            ELSE LET g == find_child_by_value(heap, TheTree,
                                              root(TheTree), label)
                 IN  IF g.err # ErrOk
                     THEN FillOutcome(g.err, heap, _size, cur, "error", f.val)
                     ELSE FillOutcome(ErrOk, heap, _size, g.val, "found",
                                      f.val)

fill_label(cur, node) ==
    LET label == strip(node)
        rv == _validate(heap, TheTree, root(TheTree))
    IN  IF rv.err # ErrOk
        THEN FillOutcome(rv.err, heap, _size, cur, "error", NonePos)
        ELSE IF heap[rv.node]._element = label
        THEN FillOutcome(ErrOk, heap, _size, root(TheTree), "root", NonePos)
        ELSE
        LET f == find_child_by_value(heap, TheTree, cur, label)
        IN  IF f.err # ErrOk
            THEN FillOutcome(f.err, heap, _size, cur, "error", NonePos)
            ELSE IF f.val.kind = "False"
            THEN LET o == add_node(TheTree, label, cur)
                 IN  FillOutcome(o.err, o.heap, o._size, cur,
                                 IF o.err = ErrOk THEN "add" ELSE "error",
                                 f.val)
            ELSE LET g == find_child_by_value(heap, TheTree,
                                              root(TheTree), label)
                 IN  IF g.err # ErrOk
                     THEN FillOutcome(g.err, heap, _size, cur, "error", f.val)
                     ELSE FillOutcome(ErrOk, heap, _size, g.val, "found",
                                      f.val)

\* print_tree: each file is <<>> while it does not exist and <<lines>> once
\* opened for writing; an error inside a traversal leaves the rest unwritten
print_tree(h, t) ==
    LET pre == all_nodes(h, t, "pre")
    IN  IF pre.err # ErrOk
        THEN [err |-> pre.err, pre |-> <<pre.val>>, post |-> <<>>]
        ELSE LET post == all_nodes(h, t, "post")
             IN  [err |-> post.err, pre |-> <<pre.val>>,
                  post |-> <<post.val>>]

\* ------------------------------------------------------------------ Init
NoCall ==
    [op |-> "none", tree |-> "-", p |-> NonePos, e |-> <<>>, err |-> ErrOk,
     ret |-> NonePos, num |-> 0, seq |-> <<>>, lines |-> <<>>,
     found |-> NonePos, repeat |-> FALSE]

NoStep == [kind |-> "none", label |-> <<>>, before |-> NonePos,
           found |-> NonePos]

Init ==
    /\ heap = <<>>
    /\ _root = [t \in Trees |-> 0]
    /\ _size = [t \in Trees |-> 0]
    /\ call = NoCall
    /\ pc = "idle"
    /\ cursor = NonePos
    /\ labels = <<>>
    /\ files = [pre |-> <<>>, post |-> <<>>]
    /\ fillErr = ErrOk
    /\ step = NoStep

\* ------------------------------------------------- direct calls on trees
\* positions a caller can hold: None, False, and the positions the trees
\* have handed out
Positions ==
    {NonePos, FalseVal} \cup
    {_make_position(t, n) : t \in Trees, n \in 1..Len(heap)}

HandedOut ==
    {pp \in Positions :
        pp.kind = "Position" => pp.node \in NodesOf(heap, pp.container)}

Called(op, t, p, e, err, ret, num, seq, lines, found) ==
    [op |-> op, tree |-> t, p |-> p, e |-> e, err |-> err, ret |-> ret,
     num |-> num, seq |-> seq, lines |-> lines, found |-> found,
     repeat |-> (call.op = op /\ call.tree = t /\ call.p = p /\ call.e = e
                 /\ call.err = ErrOk)]

\* the child of p labelled e as the tree stands before a call (False if none,
\* None if p cannot be looked up)
FoundBefore(t, p, e) ==
    LET f == find_child_by_value(heap, t, p, e)
    IN  IF f.err = ErrOk THEN f.val ELSE NonePos

Direct == pc = "idle"

Mutate(op, t, p, e, o) ==
    /\ Direct
    /\ Len(o.heap) <= MaxNodes
    /\ heap' = o.heap
    /\ _root' = o._root
    /\ _size' = o._size
    /\ call' = Called(op, t, p, e, o.err, o.ret, 0, <<>>, <<>>,
                      FoundBefore(t, p, e))
    /\ UNCHANGED <<pc, cursor, labels, files, fillErr, step>>

Query(op, t, p, e, err, ret, num, seq, lines) ==
    /\ Direct
    /\ call' = Called(op, t, p, e, err, ret, num, seq, lines, NonePos)
    /\ UNCHANGED <<heap, _root, _size, pc, cursor, labels, files, fillErr,
                   step>>

AddRoot ==
    \E t \in Trees, e \in Elements :
        Mutate("_add_root", t, NonePos, e, _add_root(t, e))

AddNonrootNode ==
    \E t \in Trees, p \in HandedOut, e \in Elements :
        Mutate("_add_nonroot_node", t, p, e, _add_nonroot_node(t, p, e))

AddNode ==
    \E t \in Trees, p \in HandedOut, e \in Elements :
        Mutate("add_node", t, p, e, add_node(t, e, p))

Parent ==
    \E t \in Trees, p \in HandedOut :
        LET r == parent(heap, t, p)
        IN  Query("parent", t, p, <<>>, r.err, r.val, 0, <<>>, <<>>)

NumChildren ==
    \E t \in Trees, p \in HandedOut :
        LET r == num_children(heap, t, p)
        IN  Query("num_children", t, p, <<>>, r.err, NonePos, r.val, <<>>,
                  <<>>)

Children ==
    \E t \in Trees, p \in HandedOut :
        LET r == children(heap, t, p)
        IN  Query("children", t, p, <<>>, r.err, NonePos, 0, r.val, <<>>)

FindChildByValue ==
    \E t \in Trees, p \in HandedOut, e \in Elements :
        LET r == find_child_by_value(heap, t, p, e)
        IN  Query("find_child_by_value", t, p, e, r.err, r.val, 0, <<>>,
                  <<>>)

AllNodes ==
    \E t \in Trees, mode \in {"pre", "post"} :
        LET r == all_nodes(heap, t, mode)
        IN  Query("all_nodes_" \o mode, t, NonePos, <<>>, r.err, NonePos, 0,
                  <<>>, r.val)

GetPathToRoot ==
    \E t \in Trees, p \in HandedOut :
        LET r == get_path_to_root(heap, t, p)
        IN  Query("get_path_to_root", t, p, <<>>, r.err, NonePos, 0, r.val,
                  <<>>)

\* ------------------------------------------------ the categorizer's run
\* fill_tree starts: self._tree = LinkedTree(), parent = None
FillTree ==
    /\ pc = "idle"
    /\ call = NoCall
    /\ pc' = "filling"
    /\ cursor' = NonePos
    /\ _root' = [_root EXCEPT ![TheTree] = 0]
    /\ _size' = [_size EXCEPT ![TheTree] = 0]
    /\ UNCHANGED <<heap, call, labels, files, fillErr, step>>

ReadLine_reset ==
    /\ pc = "filling"
    /\ labels = <<>>
    /\ \E line \in Lines :
        IF is_empty(TheTree)
        THEN LET o == add_node(TheTree, strip(line), NonePos)
             IN  /\ heap' = o.heap
                 /\ _root' = o._root
                 /\ _size' = o._size
                 /\ pc' = IF o.err = ErrOk THEN "filling" ELSE "failed"
                 /\ fillErr' = o.err
                 /\ step' = [kind |-> "first", label |-> line,
                             before |-> cursor, found |-> NonePos]
                 /\ UNCHANGED <<labels, cursor>>
        ELSE /\ labels' = split(line)
             /\ step' = [kind |-> "line", label |-> <<>>,
                         before |-> cursor, found |-> NonePos]
             /\ cursor' = root(TheTree)
             /\ UNCHANGED <<heap, _root, _size, pc, fillErr>>
    /\ UNCHANGED <<call, files>>

ReadLine_split ==
    /\ pc = "filling"
    /\ labels = <<>>
    /\ \E line \in Lines :
        IF is_empty(TheTree)
        THEN LET o == add_node(TheTree, strip(Head(split(line))), NonePos)
             IN  /\ heap' = o.heap
                 /\ _root' = o._root
                 /\ _size' = o._size
                 /\ pc' = IF o.err = ErrOk THEN "filling" ELSE "failed"
                 /\ fillErr' = o.err
                 /\ step' = [kind |-> "first", label |-> line,
                             before |-> cursor, found |-> NonePos]
                 /\ UNCHANGED <<labels, cursor>>
        ELSE /\ labels' = split(line)
             /\ step' = [kind |-> "line", label |-> <<>>,
                         before |-> cursor, found |-> NonePos]
             /\ UNCHANGED <<heap, _root, _size, pc, fillErr, cursor>>
    /\ UNCHANGED <<call, files>>

\* the outer loop takes the next line of the file
ReadLine ==
    /\ pc = "filling"
    /\ labels = <<>>
    /\ \E line \in Lines :
        IF is_empty(TheTree)
        THEN LET o == add_node(TheTree, strip(line), NonePos)
             IN  /\ heap' = o.heap
                 /\ _root' = o._root
                 /\ _size' = o._size
                 /\ pc' = IF o.err = ErrOk THEN "filling" ELSE "failed"
                 /\ fillErr' = o.err
                 /\ step' = [kind |-> "first", label |-> line,
                             before |-> cursor, found |-> NonePos]
                 /\ UNCHANGED <<labels, cursor>>
        ELSE /\ labels' = split(line)
             /\ step' = [kind |-> "line", label |-> <<>>,
                         before |-> cursor, found |-> NonePos]
             /\ UNCHANGED <<heap, _root, _size, pc, fillErr, cursor>>
    /\ UNCHANGED <<call, files>>

\* the inner loop handles the next piece of the current line
ProcessLabel ==
    /\ pc = "filling"
    /\ labels # <<>>
    /\ LET o == fill_label(cursor, Head(labels))
       IN  /\ heap' = o.heap
           /\ _size' = o._size
           /\ cursor' = o.cursor
           /\ pc' = IF o.err = ErrOk THEN "filling" ELSE "failed"
           /\ fillErr' = o.err
           /\ step' = [kind |-> o.kind, label |-> strip(Head(labels)),
                       before |-> cursor, found |-> o.found]
    /\ labels' = Tail(labels)
    /\ UNCHANGED <<_root, call, files>>

\* the file has no more lines: fill_tree returns
EndOfInput ==
    /\ pc = "filling"
    /\ labels = <<>>
    /\ pc' = "filled"
    /\ UNCHANGED <<heap, _root, _size, call, cursor, labels, files, fillErr,
                   step>>

PrintTree ==
    /\ pc = "filled"
    /\ LET o == print_tree(heap, TheTree)
       IN  /\ files' = [pre |-> o.pre, post |-> o.post]
           /\ fillErr' = o.err
           /\ pc' = IF o.err = ErrOk THEN "printed" ELSE "printfailed"
    /\ UNCHANGED <<heap, _root, _size, call, cursor, labels, step>>

Next ==
    \/ AddRoot
    \/ AddNonrootNode
    \/ AddNode
    \/ Parent
    \/ NumChildren
    \/ Children
    \/ FindChildByValue
    \/ AllNodes
    \/ GetPathToRoot
    \/ FillTree
    \/ ReadLine
    \/ ProcessLabel
    \/ EndOfInput
    \/ PrintTree

Spec == Init /\ [][Next]_vars

\* ================================================================ claims
Kids(n) == IF heap[n]._children = NoneList THEN <<>> ELSE heap[n]._children[1]

TreeUnchanged == heap' = heap /\ _root' = _root /\ _size' = _size

\* C1: no node has two children whose elements are equal, after any
\* sequence of add calls and at every point of fill_tree.
C1_UniqueSiblings ==
    \A n \in 1..Len(heap) :
        \A i, j \in 1..Len(Kids(n)) :
            i # j => heap[Kids(n)[i]]._element # heap[Kids(n)[j]]._element

\* C1 witness: an add call met an existing child under a node that has two
\* children.
C1_Witness ==
    /\ call.op \in {"_add_nonroot_node", "add_node"}
    /\ call.err = ErrOk
    /\ call.found.kind = "Position"
    /\ Len(Kids(call.p.node)) >= 2

\* C2: when p already has a child with element e, addChild(p, e) returns
\* the position of that existing child.
C2_ReturnsExistingChild ==
    (/\ call.op = "_add_nonroot_node"
     /\ call.err = ErrOk
     /\ call.found.kind = "Position")
    => PositionEq(call.ret, call.found)

\* C3: a second addChild(p, e) with the same (p, e), made right after a
\* successful first one, changes neither the nodes (children lists, parent
\* links, elements) nor the root nor the size.
C3_SecondAddChangesNothing ==
    [][(call'.op = "_add_nonroot_node" /\ call'.repeat) => TreeUnchanged]_vars

\* C3 witness: the same successful addChild call has just been made again.
C3_Witness ==
    /\ call.op = "_add_nonroot_node"
    /\ call.repeat
    /\ call.err = ErrOk
    /\ call.found.kind = "Position"

\* C4: size is the number of nodes reachable from the root through the
\* children lists, and size is 0 exactly when there is no root.
C4_SizeCountsNodes ==
    \A t \in Trees :
        /\ _size[t] = Cardinality(NodesOf(heap, t))
        /\ (_size[t] = 0 <=> _root[t] = 0)

\* C4 witness: a failing call on a tree that already has several nodes.
C4_Witness ==
    /\ call.op \in {"_add_root", "_add_nonroot_node", "add_node"}
    /\ call.err # ErrOk
    /\ \E t \in Trees : _size[t] >= 2

\* C5: with zero input lines, fill_tree then print_tree completes without
\* error, the tree is empty and both output files are written empty.
C5_EmptyInputPrintsNothing ==
    (pc \in {"printed", "printfailed"} /\ step = NoStep)
    => /\ pc = "printed"
       /\ fillErr = ErrOk
       /\ _size[TheTree] = 0 /\ _root[TheTree] = 0
       /\ files.pre = <<<<>>>>
       /\ files.post = <<<<>>>>

\* C6: when a label other than the root's element is processed and the
\* cursor already has a child with that label, the cursor becomes that child
\* of the cursor.
C6_CursorMovesToItsChild ==
    [][(/\ pc = "filling"
        /\ labels # <<>>
        /\ _root[TheTree] # 0
        /\ strip(Head(labels)) # heap[_root[TheTree]]._element
        /\ FoundBefore(TheTree, cursor, strip(Head(labels))).kind = "Position")
       => cursor' = FoundBefore(TheTree, cursor, strip(Head(labels)))]_vars

\* C7: addRoot(e) on a tree with a root fails and changes nothing; on an
\* empty tree it creates the root with element e, sets size to 1 and returns
\* the root's position.
C7_AddRootContract ==
    [][(call'.op = "_add_root") =>
         IF _root[call'.tree] # 0
         THEN call'.err = ErrRootExists /\ TreeUnchanged
         ELSE /\ call'.err = ErrOk
              /\ _size'[call'.tree] = 1
              /\ _root'[call'.tree] \in 1..Len(heap')
              /\ _root'[call'.tree] \notin 1..Len(heap)
              /\ heap'[_root'[call'.tree]] = Node(call'.e, 0, NoneList)
              /\ call'.ret = _make_position(call'.tree, _root'[call'.tree])
              /\ \A n \in 1..Len(heap) : heap'[n] = heap[n]
              /\ \A u \in Trees \ {call'.tree} :
                    _root'[u] = _root[u] /\ _size'[u] = _size[u]]_vars

\* C7 witness: addRoot was refused on a tree whose root has children.
C7_Witness ==
    /\ call.op = "_add_root"
    /\ call.err = ErrRootExists
    /\ _size[call.tree] >= 2

\* C8: fill_tree never raises the root-already-exists error, whatever the
\* lines are.
C8_FillNeverRootExists ==
    pc # "idle" => fillErr # ErrRootExists

\* C8 witness: a label was processed while the cursor was None in a tree
\* that has its root; construction stopped with the type error.
C8_Witness ==
    /\ pc = "failed"
    /\ step.before.kind = "None"
    /\ _size[TheTree] >= 1
    /\ fillErr = ErrType

\* C9: parent, num_children, children, find_child_by_value and addChild
\* called on one tree with a position of the other tree fail with the
\* does-not-belong error, return nothing and change neither tree.
C9_ForeignPositionRejected ==
    [][(/\ call'.op \in {"parent", "num_children", "children",
                         "find_child_by_value", "_add_nonroot_node"}
        /\ call'.p.kind = "Position"
        /\ call'.p.container # call'.tree)
       => /\ call'.err = ErrContainer
          /\ call'.ret = NonePos
          /\ call'.num = 0
          /\ call'.seq = <<>>
          /\ TreeUnchanged]_vars

\* C9 witness: addChild on a non-empty tree was refused for a position of
\* the other tree, which has children.
C9_Witness ==
    /\ call.op = "_add_nonroot_node"
    /\ call.p.kind = "Position"
    /\ call.p.container # call.tree
    /\ call.err = ErrContainer
    /\ _root[call.tree] # 0
    /\ _size[call.p.container] >= 2

\* reference line: d tabs, the element, a newline
RefLine(d, e) ==
    [i \in 1..(d + Len(e) + 1) |->
        IF i <= d THEN "\t" ELSE IF i <= d + Len(e) THEN e[i - d] ELSE "\n"]

\* reference preorder: the node's line, then the preorder sequences of its
\* children in list order, one level deeper
RECURSIVE RefPreorder(_, _, _), RefPreorderKids(_, _, _)
RefPreorder(h, n, d) ==
    <<RefLine(d, h[n]._element)>> \o
    RefPreorderKids(h, IF h[n]._children = NoneList THEN <<>>
                       ELSE h[n]._children[1], d + 1)

RefPreorderKids(h, ks, d) ==
    IF ks = <<>> THEN <<>>
    ELSE RefPreorder(h, Head(ks), d) \o RefPreorderKids(h, Tail(ks), d)

\* the tree t is a root labelled a with exactly the leaf children b, c, in
\* that order
IsRootWithTwoLeaves(t, a, b, c) ==
    /\ _root[t] # 0
    /\ heap[_root[t]]._element = a
    /\ Len(Kids(_root[t])) = 2
    /\ heap[Kids(_root[t])[1]]._element = b
    /\ heap[Kids(_root[t])[2]]._element = c
    /\ Kids(Kids(_root[t])[1]) = <<>>
    /\ Kids(Kids(_root[t])[2]) = <<>>

PreorderOk(t, err, lines) ==
    /\ err = ErrOk
    /\ Len(lines) = _size[t]
    /\ lines = RefPreorder(heap, _root[t], 0)
    /\ IsRootWithTwoLeaves(t, <<"a">>, <<"b">>, <<"c">>)
         => lines = << <<"a", "\n">>, <<"\t", "b", "\n">>,
                       <<"\t", "c", "\n">> >>

\* C10: on a non-empty tree the preorder traversal yields size lines, the
\* reference preorder sequence with each line depth tabs, element, newline;
\* root a with children b, c yields a, <TAB>b, <TAB>c.
C10_PreorderIsReference ==
    /\ (call.op = "all_nodes_pre" /\ _root[call.tree] # 0)
         => PreorderOk(call.tree, call.err, call.lines)
    /\ (pc \in {"printed", "printfailed"} /\ _root[TheTree] # 0)
         => /\ files.pre # <<>>
            /\ PreorderOk(TheTree, ErrOk, files.pre[1])

\* C10 witness: pre.txt written for a root with two children of which the
\* first has a child of its own.
C10_Witness ==
    /\ pc = "printed"
    /\ _root[TheTree] # 0
    /\ Len(Kids(_root[TheTree])) = 2
    /\ Kids(Kids(_root[TheTree])[1]) # <<>>
    /\ Len(files.pre[1]) = _size[TheTree]

\* reference postorder: the postorder sequences of the children in list
\* order, one level deeper, then the node's line
RECURSIVE RefPostorder(_, _, _), RefPostorderKids(_, _, _)
RefPostorder(h, n, d) ==
    RefPostorderKids(h, IF h[n]._children = NoneList THEN <<>>
                        ELSE h[n]._children[1], d + 1)
    \o <<RefLine(d, h[n]._element)>>

RefPostorderKids(h, ks, d) ==
    IF ks = <<>> THEN <<>>
    ELSE RefPostorder(h, Head(ks), d) \o RefPostorderKids(h, Tail(ks), d)

\* strict descendants of node n
Descendants(n) == Subtree(heap, n) \ {n}

\* level of node n counted from its tree's root along the children lists
RECURSIVE LevelIn(_, _, _)
LevelIn(top, n, d) ==
    IF top = n THEN d
    ELSE LET below == {i \in 1..Len(Kids(top)) :
                          n \in Subtree(heap, Kids(top)[i])}
         IN  IF below = {} THEN 0 - 1
             ELSE LevelIn(Kids(top)[CHOOSE i \in below : TRUE], n, d + 1)

PostorderOk(t, err, lines) ==
    /\ err = ErrOk
    /\ Len(lines) = _size[t]
    /\ lines = RefPostorder(heap, _root[t], 0)
    /\ lines[Len(lines)] = RefLine(0, heap[_root[t]]._element)
    /\ IsRootWithTwoLeaves(t, <<"a">>, <<"b">>, <<"c">>)
         => lines = << <<"\t", "b", "\n">>, <<"\t", "c", "\n">>,
                       <<"a", "\n">> >>

\* C11: on a non-empty tree the postorder traversal yields size lines, the
\* reference postorder sequence (children first, in list order, then the
\* node), with the root's line last; root a with children b, c yields
\* <TAB>b, <TAB>c, a.
C11_PostorderIsReference ==
    /\ (call.op = "all_nodes_post" /\ _root[call.tree] # 0)
         => PostorderOk(call.tree, call.err, call.lines)
    /\ (pc \in {"printed", "printfailed"} /\ _root[TheTree] # 0)
         => /\ files.post # <<>>
            /\ PostorderOk(TheTree, ErrOk, files.post[1])

\* C11 witness: post.txt written for a root with two children of which the
\* second has a child of its own.
C11_Witness ==
    /\ pc = "printed"
    /\ _root[TheTree] # 0
    /\ Len(Kids(_root[TheTree])) = 2
    /\ Kids(Kids(_root[TheTree])[2]) # <<>>
    /\ Len(files.post[1]) = _size[TheTree]

\* C12: for a valid position p of the tree, get_path_to_root(p) has
\* depth(p) + 1 entries, starts with p, ends with the root, and each entry
\* is followed by its parent.
C12_PathToRoot ==
    (/\ call.op = "get_path_to_root"
     /\ call.p.kind = "Position"
     /\ call.p.container = call.tree)
    => /\ call.err = ErrOk
       /\ depth(heap, call.tree, call.p).err = ErrOk
       /\ Len(call.seq) = depth(heap, call.tree, call.p).val + 1
       /\ Len(call.seq) = LevelIn(_root[call.tree], call.p.node, 0) + 1
       /\ call.seq[1] = call.p
       /\ call.seq[Len(call.seq)] = root(call.tree)
       /\ \A i \in 1..(Len(call.seq) - 1) :
              /\ parent(heap, call.tree, call.seq[i]).err = ErrOk
              /\ parent(heap, call.tree, call.seq[i]).val = call.seq[i + 1]

\* C12 witness: the path of a node two levels below the root.
C12_Witness ==
    /\ call.op = "get_path_to_root"
    /\ call.err = ErrOk
    /\ Len(call.seq) = 3
    /\ call.seq[3] = root(call.tree)

Roots == {_root[t] : t \in Trees} \ {0}

\* following parent links from n for at most k steps ends at a root
RECURSIVE ReachesRoot(_, _)
ReachesRoot(n, k) ==
    IF heap[n]._parent = 0 THEN n \in Roots
    ELSE k > 0 /\ ReachesRoot(heap[n]._parent, k - 1)

\* C13: every child in a node's children list has that node as its parent,
\* every non-root node is listed exactly once by its parent, parent links
\* lead from every node to a root, no node is its own parent, and no
\* position handed out by a tree is rejected as no longer valid.
C13_ParentChildLinks ==
    /\ \A n \in 1..Len(heap) :
          /\ \A i \in 1..Len(Kids(n)) : heap[Kids(n)[i]]._parent = n
          /\ n \notin Roots =>
                /\ heap[n]._parent # 0
                /\ Cardinality({i \in 1..Len(Kids(heap[n]._parent)) :
                                   Kids(heap[n]._parent)[i] = n}) = 1
          /\ heap[n]._parent # n
          /\ ReachesRoot(n, Len(heap))
    /\ \A q \in HandedOut :
          q.kind = "Position" => _validate(heap, q.container, q).err = ErrOk

\* C13 witness: a node whose parent is itself a child.
C13_Witness ==
    \E n \in 1..Len(heap) :
        /\ heap[n]._parent # 0
        /\ heap[heap[n]._parent]._parent # 0
        /\ Len(Kids(heap[heap[n]._parent]._parent)) >= 1

\* C17: addChild(p, e) for a label e that p has no child with appends one
\* new node (element e, parent p, no children) at the end of p's children,
\* adds 1 to size, changes no other node and returns the new position; the
\* children of p are yielded in the order they were added.
C17_AddChildAppends ==
    [][(/\ call'.op = "_add_nonroot_node"
        /\ call'.err = ErrOk
        /\ call'.found.kind = "False")
       => LET t == call'.tree
              n == call'.p.node
              new == Len(heap) + 1
          IN  /\ Len(heap') = new
              /\ heap'[new] = Node(call'.e, n, NoneList)
              /\ Len(heap'[n]._children) = 1
              /\ heap'[n]._children[1] = Append(Kids(n), new)
              /\ heap'[n]._element = heap[n]._element
              /\ heap'[n]._parent = heap[n]._parent
              /\ \A k \in 1..Len(heap) : k # n => heap'[k] = heap[k]
              /\ _size' = [_size EXCEPT ![t] = _size[t] + 1]
              /\ _root' = _root
              /\ call'.ret = _make_position(t, new)
              /\ children(heap', t, call'.p).val
                    = Append(children(heap, t, call'.p).val,
                             _make_position(t, new))
              /\ \A i, j \in 1..Len(heap'[n]._children[1]) :
                    i < j => heap'[n]._children[1][i]
                                < heap'[n]._children[1][j]]_vars

\* C17 witness: an addChild call has just appended a second child.
C17_Witness ==
    /\ call.op = "_add_nonroot_node"
    /\ call.err = ErrOk
    /\ call.found.kind = "False"
    /\ Len(Kids(call.p.node)) >= 2
    /\ call.ret.node = Kids(call.p.node)[Len(Kids(call.p.node))]

\* ------------------------------------------------- claims on fill_tree
RootElement == heap[_root[TheTree]]._element

\* a label other than the root's element is about to be processed
NonRootLabelNext ==
    /\ pc = "filling"
    /\ labels # <<>>
    /\ _root[TheTree] # 0
    /\ strip(Head(labels)) # RootElement

IsTrimOf(e, raw) ==
    \E i, j \in 0..Len(raw) :
        /\ i + j <= Len(raw)
        /\ e = SubSeq(raw, i + 1, Len(raw) - j)
        /\ \A k \in 1..i : raw[k] \in Whitespace
        /\ \A k \in (Len(raw) - j + 1)..Len(raw) : raw[k] \in Whitespace
        /\ e # <<>> => (e[1] \notin Whitespace /\ e[Len(e)] \notin Whitespace)

====
